---- MODULE Spec2Model ----
(***************************************************************************)
(* Model of custom_components/smartthinq_sensors/climate.py: the climate   *)
(* entity LGEACClimate, which forwards reads to the device state object    *)
(* (self._api.state) and commands to the device (self._device).            *)
(***************************************************************************)
EXTENDS Integers, Sequences, FiniteSets, TLC

\* ------------------------------------------------------------------ bounds
TempSpan == 1
MaxOpModes == 2

\* --------------------------------------------------------------- constants
None == "<None>"

HVAC_MODE_OFF == "off"

\* the items of the dict literal, in insertion order
HVAC_MODE_LOOKUP_ITEMS ==
    << <<"AI", "auto">>,
       <<"HEAT", "heat">>,
       <<"DRY", "dry">>,
       <<"COOL", "cool">>,
       <<"FAN", "fan_only">>,
       <<"ACO", "heat_cool">> >>

\* a Python dict built from a sequence of (key, value): the last item of a
\* key gives its value
DictOf(items) ==
    [k \in {items[i][1] : i \in DOMAIN items} |->
        items[CHOOSE i \in DOMAIN items :
                 /\ items[i][1] = k
                 /\ \A j \in DOMAIN items : items[j][1] = k => j <= i][2]]

\* dict.get(key): None when the key is missing
Get(d, k) == IF k \in DOMAIN d THEN d[k] ELSE None

HVAC_MODE_LOOKUP == DictOf(HVAC_MODE_LOOKUP_ITEMS)

\* the comprehension with key and value not exchanged: {k: v for k, v in ...}
HVAC_MODE_REVERSE_LOOKUP_NotSwapped == DictOf(HVAC_MODE_LOOKUP_ITEMS)

\* {v: k for k, v in HVAC_MODE_LOOKUP.items()}
HVAC_MODE_REVERSE_LOOKUP ==
    DictOf([i \in DOMAIN HVAC_MODE_LOOKUP_ITEMS |->
               <<HVAC_MODE_LOOKUP[HVAC_MODE_LOOKUP_ITEMS[i][1]],
                 HVAC_MODE_LOOKUP_ITEMS[i][1]>>])

\* ------------------------------------------------------------ value spaces
Temps == 18 .. (18 + TempSpan)
FanSpeeds == {"LOW", "HIGH"}
\* operation modes the device can report: nothing yet, the mapped mode
\* names, and a mode name with no mapping
OperationModes == {None, "AI", "HEAT", "DRY", "COOL", "FAN", "ACO", "AIRCLEAN"}
\* mode names a device may list as supported
SupportedModes == {"COOL", "FAN", "AIRCLEAN"}
\* arguments of async_set_hvac_mode: off, the platform modes, an unknown one
HvacModeArgs == {HVAC_MODE_OFF, "auto", "heat", "dry", "cool", "fan_only",
                 "heat_cool", "eco", None}
\* keyword arguments of async_set_temperature, as a set of (key, value)
KwargsSpace == {{}} \cup {{<<"temperature", t>>} : t \in Temps}
                    \cup {{<<"hvac_mode", "cool">>}}

DeviceStates ==
    [is_on : BOOLEAN, operation_mode : OperationModes,
     current_temp : Temps, target_temp : Temps, fan_speed : FanSpeeds]

\* the lists of supported modes: each mode is listed once
OpModeLists ==
    {ops \in UNION {[1..n -> SupportedModes] : n \in 0..MaxOpModes} :
        \A i, j \in DOMAIN ops : ops[i] = ops[j] => i = j}

VARIABLES
    state,      \* self._api.state: the device's current state object
    op_modes,   \* self._device.op_modes
    call,       \* the entity operation that ran last, with its arguments
    pre,        \* the device state before the last command operation or
                \* device update (a history of self._api.state)
    log,        \* the device commands that operation issued, in order
    result      \* what that operation returned or raised

vars == <<state, op_modes, call, pre, log, result>>

\* ------------------------------------------------------------ the device
Cmd(c, a) == [cmd |-> c, arg |-> a]

\* the effect of one device command on the device state
Apply(s, c) ==
    IF c.cmd = "power" THEN [s EXCEPT !.is_on = c.arg]
    ELSE IF c.cmd = "set_op_mode" THEN [s EXCEPT !.operation_mode = c.arg]
    ELSE IF c.cmd = "set_target_temp" THEN [s EXCEPT !.target_temp = c.arg]
    ELSE IF c.cmd = "set_fan_speed" THEN [s EXCEPT !.fan_speed = c.arg]
    ELSE s

\* a run of an operation: the state so far, the events so far, the outcome
Start(s) == [state |-> s, log |-> <<>>, result |-> None]

\* await self._device.<c>(...): the command is issued, the device performs
\* it, and only then does the operation go on
Await(r, c) ==
    [r EXCEPT !.state = Apply(r.state, c),
              !.log = r.log \o << [cmd |-> c.cmd, arg |-> c.arg, ev |-> "call"],
                                  [cmd |-> c.cmd, arg |-> c.arg, ev |-> "return"] >>]

Raise(r, e) == [r EXCEPT !.result = e]

\* ------------------------------------------------------------ properties
\* hvac_mode without the test for a missing operation mode
hvac_mode_NoNoneTest(s) ==
    IF ~s.is_on
    THEN HVAC_MODE_OFF
    ELSE Get(HVAC_MODE_LOOKUP, s.operation_mode)

hvac_mode(s) ==
    LET mode == s.operation_mode
    IN  IF ~s.is_on \/ mode = None
        THEN HVAC_MODE_OFF
        ELSE Get(HVAC_MODE_LOOKUP, mode)

\* hvac_modes without the filter on the mapped mode names
hvac_modes_NoFilter(ops) ==
    <<HVAC_MODE_OFF>> \o [i \in 1..Len(ops) |-> Get(HVAC_MODE_LOOKUP, ops[i])]

hvac_modes(ops) ==
    LET kept == SelectSeq(ops, LAMBDA mode : mode \in DOMAIN HVAC_MODE_LOOKUP)
    IN  <<HVAC_MODE_OFF>> \o [i \in 1..Len(kept) |-> Get(HVAC_MODE_LOOKUP, kept[i])]

current_temperature(s) == s.current_temp

\* target_temperature answered from a copy kept from before the last command
target_temperature_Cached(s) == pre.target_temp

target_temperature(s) == s.target_temp

fan_mode(s) == s.fan_speed

\* ------------------------------------------------------------ operations
\* kwargs.get(key, default)
KwGet(kwargs, key, default) ==
    IF \E p \in kwargs : p[1] = key
    THEN (CHOOSE p \in kwargs : p[1] = key)[2]
    ELSE default

\* async_set_hvac_mode that sets the mode before it powers the device on
SetHvacMode_ModeFirst(s, h) ==
    IF h = HVAC_MODE_OFF
    THEN Await(Start(s), Cmd("power", FALSE))
    ELSE LET operation_mode == Get(HVAC_MODE_REVERSE_LOOKUP, h)
         IN  IF operation_mode = None
             THEN Raise(Start(s), "ValueError")
             ELSE LET r == Await(Start(s), Cmd("set_op_mode", operation_mode))
                  IN  IF hvac_mode(s) = HVAC_MODE_OFF
                      THEN Await(r, Cmd("power", TRUE))
                      ELSE r

\* async_set_hvac_mode that powers the device on before it looks the mode up
SetHvacMode_PowerFirst(s, h) ==
    IF h = HVAC_MODE_OFF
    THEN Await(Start(s), Cmd("power", FALSE))
    ELSE LET operation_mode == Get(HVAC_MODE_REVERSE_LOOKUP, h)
             r == IF hvac_mode(s) = HVAC_MODE_OFF
                  THEN Await(Start(s), Cmd("power", TRUE))
                  ELSE Start(s)
         IN  IF operation_mode = None
             THEN Raise(r, "ValueError")
             ELSE Await(r, Cmd("set_op_mode", operation_mode))

\* async_set_hvac_mode that sends no power(False) to a device that reads off
SetHvacMode_OffOnlyWhenOn(s, h) ==
    IF h = HVAC_MODE_OFF
    THEN IF hvac_mode(s) = HVAC_MODE_OFF
         THEN Start(s)
         ELSE Await(Start(s), Cmd("power", FALSE))
    ELSE LET operation_mode == Get(HVAC_MODE_REVERSE_LOOKUP, h)
         IN  IF operation_mode = None
             THEN Raise(Start(s), "ValueError")
             ELSE LET r == IF hvac_mode(s) = HVAC_MODE_OFF
                           THEN Await(Start(s), Cmd("power", TRUE))
                           ELSE Start(s)
                  IN  Await(r, Cmd("set_op_mode", operation_mode))

SetHvacMode(s, h) ==
    IF h = HVAC_MODE_OFF
    THEN Await(Start(s), Cmd("power", FALSE))
    ELSE LET operation_mode == Get(HVAC_MODE_REVERSE_LOOKUP, h)
         IN  IF operation_mode = None
             THEN Raise(Start(s), "ValueError")
             ELSE LET r == IF hvac_mode(s) = HVAC_MODE_OFF
                           THEN Await(Start(s), Cmd("power", TRUE))
                           ELSE Start(s)
                  IN  Await(r, Cmd("set_op_mode", operation_mode))

\* async_set_temperature that falls back on the current temperature
SetTemperature_CurrentDefault(s, kwargs) ==
    Await(Start(s),
          Cmd("set_target_temp", KwGet(kwargs, "temperature", current_temperature(s))))

SetTemperature(s, kwargs) ==
    Await(Start(s),
          Cmd("set_target_temp", KwGet(kwargs, "temperature", target_temperature(s))))

SetFanMode(s, f) == Await(Start(s), Cmd("set_fan_speed", f))

TurnOn(s) == Await(Start(s), Cmd("power", TRUE))

TurnOff(s) == Await(Start(s), Cmd("power", FALSE))

NoArgs == [hvac_mode |-> None, kwargs |-> {}, fan_mode |-> None]

Called(name) == [op |-> name] @@ NoArgs

\* the operation named by c ran from the current state with outcome r
Ran(c, r) ==
    /\ call' = c
    /\ pre' = state
    /\ state' = r.state
    /\ log' = r.log
    /\ result' = r.result
    /\ UNCHANGED op_modes

\* a property was read: nothing but the returned value changes
Read(name, value) ==
    /\ call' = Called(name)
    /\ log' = <<>>
    /\ result' = value
    /\ UNCHANGED <<state, op_modes, pre>>

async_set_hvac_mode ==
    \E h \in HvacModeArgs :
        Ran([Called("async_set_hvac_mode") EXCEPT !.hvac_mode = h],
            SetHvacMode(state, h))

async_set_temperature ==
    \E kwargs \in KwargsSpace :
        Ran([Called("async_set_temperature") EXCEPT !.kwargs = kwargs],
            SetTemperature(state, kwargs))

async_set_fan_mode ==
    \E f \in FanSpeeds :
        Ran([Called("async_set_fan_mode") EXCEPT !.fan_mode = f],
            SetFanMode(state, f))

async_turn_on == Ran(Called("async_turn_on"), TurnOn(state))

async_turn_off == Ran(Called("async_turn_off"), TurnOff(state))

read_hvac_mode == Read("hvac_mode", hvac_mode(state))

read_hvac_modes == Read("hvac_modes", hvac_modes(op_modes))

read_current_temperature == Read("current_temperature", current_temperature(state))

read_target_temperature == Read("target_temperature", target_temperature(state))

read_fan_mode == Read("fan_mode", fan_mode(state))

\* the device states that differ from s in at most one value
Refreshed(s) ==
    {[s EXCEPT !.is_on = v] : v \in BOOLEAN}
        \cup {[s EXCEPT !.operation_mode = v] : v \in OperationModes}
        \cup {[s EXCEPT !.current_temp = v] : v \in Temps}
        \cup {[s EXCEPT !.target_temp = v] : v \in Temps}
        \cup {[s EXCEPT !.fan_speed = v] : v \in FanSpeeds}

\* the device reports a change of one value of its state (the coordinator
\* refreshed self._api.state)
DeviceUpdate ==
    /\ \E s \in Refreshed(state) : state' = s /\ pre' = s
    /\ call' = Called("update")
    /\ log' = <<>>
    /\ result' = None
    /\ UNCHANGED op_modes

Init ==
    /\ state \in DeviceStates
    /\ op_modes \in OpModeLists
    /\ call = Called("__init__")
    /\ pre = state
    /\ log = <<>>
    /\ result = None

Next ==
    \/ DeviceUpdate
    \/ async_set_hvac_mode
    \/ async_set_temperature
    \/ async_set_fan_mode
    \/ async_turn_on
    \/ async_turn_off
    \/ read_hvac_mode
    \/ read_hvac_modes
    \/ read_current_temperature
    \/ read_target_temperature
    \/ read_fan_mode

Spec == Init /\ [][Next]_vars

TypeOK ==
    /\ state \in DeviceStates
    /\ pre \in DeviceStates
    /\ op_modes \in OpModeLists

\* ------------------------------------------------------------------ claims
PlatformModes == {"auto", "heat", "dry", "cool", "fan_only", "heat_cool"}

\* the positions of the log where a command is issued
Issued == {i \in DOMAIN log : log[i].ev = "call"}
IssuedOf(c) == {i \in Issued : log[i].cmd = c}

\* C1: HVAC_MODE_LOOKUP has exactly the six entries AI->auto, HEAT->heat,
\* DRY->dry, COOL->cool, FAN->fan_only, ACO->heat_cool, and
\* HVAC_MODE_REVERSE_LOOKUP is its exact inverse: each table undoes the
\* other on every key, and both have the same number of entries; a mode
\* name sent to the device for a platform mode maps back to that mode.
C1_LookupInverse ==
    /\ DOMAIN HVAC_MODE_LOOKUP = {"AI", "HEAT", "DRY", "COOL", "FAN", "ACO"}
    /\ Cardinality(DOMAIN HVAC_MODE_LOOKUP) = 6
    /\ HVAC_MODE_LOOKUP["AI"] = "auto"
    /\ HVAC_MODE_LOOKUP["HEAT"] = "heat"
    /\ HVAC_MODE_LOOKUP["DRY"] = "dry"
    /\ HVAC_MODE_LOOKUP["COOL"] = "cool"
    /\ HVAC_MODE_LOOKUP["FAN"] = "fan_only"
    /\ HVAC_MODE_LOOKUP["ACO"] = "heat_cool"
    /\ \A m \in DOMAIN HVAC_MODE_LOOKUP :
          /\ HVAC_MODE_LOOKUP[m] \in DOMAIN HVAC_MODE_REVERSE_LOOKUP
          /\ HVAC_MODE_REVERSE_LOOKUP[HVAC_MODE_LOOKUP[m]] = m
    /\ \A h \in DOMAIN HVAC_MODE_REVERSE_LOOKUP :
          /\ HVAC_MODE_REVERSE_LOOKUP[h] \in DOMAIN HVAC_MODE_LOOKUP
          /\ HVAC_MODE_LOOKUP[HVAC_MODE_REVERSE_LOOKUP[h]] = h
    /\ Cardinality(DOMAIN HVAC_MODE_REVERSE_LOOKUP)
          = Cardinality(DOMAIN HVAC_MODE_LOOKUP)
    \* and so the mode name sent for a platform mode maps back to that mode
    /\ (call.op = "async_set_hvac_mode"
           /\ call.hvac_mode \in DOMAIN HVAC_MODE_REVERSE_LOOKUP) =>
          \A i \in IssuedOf("set_op_mode") :
              Get(HVAC_MODE_LOOKUP, log[i].arg) = call.hvac_mode

\* both tables at work: a platform mode was set on a device that was off
\* and reads back as the same platform mode
C1_Witness ==
    /\ call.op = "async_set_hvac_mode"
    /\ call.hvac_mode = "heat_cool"
    /\ ~pre.is_on
    /\ state.operation_mode = "ACO"
    /\ hvac_mode(state) = "heat_cool"

\* C2: a read of current_temperature, target_temperature or fan_mode
\* returns the value the device state holds now (current_temp, target_temp,
\* fan_speed), whatever was done before, and a read of hvac_mode returns a
\* value that only is_on and operation_mode of the device state determine.
C2_ReadThrough ==
    /\ call.op = "current_temperature" => result = state.current_temp
    /\ call.op = "target_temperature" => result = state.target_temp
    /\ call.op = "fan_mode" => result = state.fan_speed
    /\ call.op = "hvac_mode" =>
          \A s \in DeviceStates :
              (s.is_on = state.is_on /\ s.operation_mode = state.operation_mode)
                  => hvac_mode(s) = result

\* the target temperature is read after a command changed it: the value
\* read is the new one
C2_Witness ==
    /\ call.op = "target_temperature"
    /\ pre.target_temp # state.target_temp
    /\ result = state.target_temp

\* C3: hvac_mode returns off exactly when the device is not on or its
\* operation_mode is None; otherwise it returns HVAC_MODE_LOOKUP.get of the
\* operation_mode, a platform mode when the operation mode is a mapped name.
C3_HvacMode ==
    call.op = "hvac_mode" =>
        LET off == ~state.is_on \/ state.operation_mode = None
        IN  /\ (result = HVAC_MODE_OFF) <=> off
            /\ ~off => result = Get(HVAC_MODE_LOOKUP, state.operation_mode)
            /\ (~off /\ state.operation_mode \in DOMAIN HVAC_MODE_LOOKUP)
                  => result \in PlatformModes

\* the device is on and has not reported an operation mode: off is read
C3_Witness ==
    /\ call.op = "hvac_mode"
    /\ state.is_on
    /\ state.operation_mode = None
    /\ result = HVAC_MODE_OFF

\* C4: async_set_hvac_mode(h), h a key of HVAC_MODE_REVERSE_LOOKUP, issues
\* set_op_mode exactly once, with HVAC_MODE_REVERSE_LOOKUP[h]; it issues
\* power(True) if and only if hvac_mode read off when it was called, and
\* then power(True) has returned before set_op_mode is issued; it never
\* issues power(False).
C4_SetHvacMode ==
    (call.op = "async_set_hvac_mode"
        /\ call.hvac_mode \in DOMAIN HVAC_MODE_REVERSE_LOOKUP) =>
        /\ Cardinality(IssuedOf("set_op_mode")) = 1
        /\ \A i \in IssuedOf("set_op_mode") :
              log[i].arg = HVAC_MODE_REVERSE_LOOKUP[call.hvac_mode]
        /\ (IssuedOf("power") # {}) <=> (hvac_mode(pre) = HVAC_MODE_OFF)
        /\ \A i \in IssuedOf("power") :
              /\ log[i].arg = TRUE
              /\ \A j \in IssuedOf("set_op_mode") :
                    \E k \in DOMAIN log :
                        /\ i < k /\ k < j
                        /\ log[k].cmd = "power" /\ log[k].ev = "return"

\* cool is set on a device that was off: power(True), then set_op_mode(COOL)
C4_Witness ==
    /\ call.op = "async_set_hvac_mode"
    /\ call.hvac_mode = "cool"
    /\ ~pre.is_on
    /\ Len(log) = 4
    /\ state.is_on
    /\ state.operation_mode = "COOL"

\* C5: async_set_hvac_mode(h), h neither off nor a key of
\* HVAC_MODE_REVERSE_LOOKUP, raises ValueError and issues no device command,
\* also when the device is off: the device state is as it was.
C5_InvalidHvacMode ==
    (call.op = "async_set_hvac_mode"
        /\ call.hvac_mode # HVAC_MODE_OFF
        /\ call.hvac_mode \notin DOMAIN HVAC_MODE_REVERSE_LOOKUP) =>
        /\ result = "ValueError"
        /\ log = <<>>
        /\ state = pre

\* an unknown mode is asked of a device that is off
C5_Witness ==
    /\ call.op = "async_set_hvac_mode"
    /\ call.hvac_mode = "eco"
    /\ ~pre.is_on
    /\ result = "ValueError"

\* C6: async_set_hvac_mode(off) issues exactly one device command,
\* power(False), whether the device is on or off, and no set_op_mode; the
\* operation_mode, target_temp and fan_speed of the device are as they were.
C6_SetHvacModeOff ==
    (call.op = "async_set_hvac_mode" /\ call.hvac_mode = HVAC_MODE_OFF) =>
        /\ Cardinality(Issued) = 1
        /\ \A i \in Issued : log[i].cmd = "power" /\ log[i].arg = FALSE
        /\ IssuedOf("set_op_mode") = {}
        /\ state.operation_mode = pre.operation_mode
        /\ state.target_temp = pre.target_temp
        /\ state.fan_speed = pre.fan_speed

\* off is set on a device that is already off: power(False) is still sent
C6_Witness ==
    /\ call.op = "async_set_hvac_mode"
    /\ call.hvac_mode = HVAC_MODE_OFF
    /\ ~pre.is_on
    /\ Cardinality(Issued) = 1

\* C7: hvac_modes is off followed by HVAC_MODE_LOOKUP[m] for exactly the m
\* of the device's op_modes that are keys of HVAC_MODE_LOOKUP, in the
\* device's order; it never contains None, and every element is off or one
\* of the six platform modes.
C7_HvacModes ==
    call.op = "hvac_modes" =>
        LET mapped == {i \in DOMAIN op_modes :
                          op_modes[i] \in DOMAIN HVAC_MODE_LOOKUP}
            \* the place in the result of the mapped mode at position i
            place(i) == 1 + Cardinality({j \in mapped : j <= i})
        IN  /\ Len(result) = 1 + Cardinality(mapped)
            /\ result[1] = HVAC_MODE_OFF
            /\ \A i \in mapped :
                  result[place(i)] = HVAC_MODE_LOOKUP[op_modes[i]]
            /\ \A k \in DOMAIN result :
                  /\ result[k] # None
                  /\ result[k] \in {HVAC_MODE_OFF} \cup PlatformModes

\* a device lists a mode with no mapping before a mapped one
C7_Witness ==
    /\ call.op = "hvac_modes"
    /\ op_modes = <<"AIRCLEAN", "COOL">>
    /\ result = <<"off", "cool">>

\* C8: async_set_temperature issues exactly one command, set_target_temp:
\* with the 'temperature' keyword when it is there and with the device
\* state's target_temp when it is not, and then the device's target
\* temperature is as it was; it issues no power, set_op_mode or
\* set_fan_speed.
C8_SetTemperature ==
    call.op = "async_set_temperature" =>
        LET given == {p \in call.kwargs : p[1] = "temperature"}
        IN  /\ Cardinality(Issued) = 1
            /\ Cardinality(IssuedOf("set_target_temp")) = 1
            /\ \A i \in IssuedOf("set_target_temp") :
                  /\ \A p \in given : log[i].arg = p[2]
                  /\ given = {} => log[i].arg = pre.target_temp
            /\ given = {} => state.target_temp = pre.target_temp
            /\ IssuedOf("power") = {}
            /\ IssuedOf("set_op_mode") = {}
            /\ IssuedOf("set_fan_speed") = {}

\* called with another keyword only, while target and current differ
C8_Witness ==
    /\ call.op = "async_set_temperature"
    /\ call.kwargs # {}
    /\ \A p \in call.kwargs : p[1] # "temperature"
    /\ Cardinality(IssuedOf("set_target_temp")) = 1
    /\ pre.target_temp # pre.current_temp
====
